---- MODULE Spec2Model ----
(***************************************************************************)
(* Model of the twin operator (drogue-iot/twin-operator).                  *)
(*                                                                         *)
(* Two loops of one task (Operator::run joins them): the periodic scanner  *)
(* (reconcile_devices / provision_devices) and the event consumer          *)
(* (process_events / handle_event).  Both drive TwinReconciler, whose      *)
(* changed() / missing() talk to two external stores: the device registry  *)
(* and the twin (Thing) service.  Every await on a store is one atomic     *)
(* step of the model; the two loops interleave between those steps.        *)
(*                                                                         *)
(* The stores detect stale writes (optimistic concurrency): every copy of  *)
(* an object carries rv = "cur" until somebody writes the stored object,   *)
(* which turns all outstanding copies to rv = "old".                       *)
(***************************************************************************)
EXTENDS Naturals, Integers, Sequences, FiniteSets, TLC

VARIABLES
    selector,   \* ReconcilerConfig.label_selector
    template,   \* TwinReconciler.template (loaded once)
    registry,   \* device registry: name -> Option(Device)
    things,     \* twin store: thing name -> Option(Thing)
    stream,     \* messages waiting in the MQTT stream
    scanpc,     \* position of reconcile_devices
    devices,    \* the Vec<Device> provision_devices iterates over
    idx,        \* index of the device provision_devices is at
    evpc,       \* position of process_events / handle_event
    evId,       \* device id handle_event dispatches
    att,        \* per loop: the reconciler attempt in progress or just ended
    panicked,   \* an expect() failed: the task running both loops is gone
    clock,      \* Utc::now()
    ext         \* number of external changes made so far

vars == <<selector, template, registry, things, stream, scanpc, devices, idx,
          evpc, evId, att, panicked, clock, ext>>

-----------------------------------------------------------------------------
(* Bounds of the model *)

MaxQueue == 1
MaxExt == 2

-----------------------------------------------------------------------------
(* Option values *)

None == <<>>
Some(x) == <<x>>
IsSome(o) == Len(o) = 1
Get(o) == o[1]

-----------------------------------------------------------------------------
(* Program constants *)

FINALIZER == "twin"
REGISTRY_TYPE == "io.drogue.registry.v1"
GROUP_ANNOTATION == <<"io.drogue/group", "btmesh/eclipsecon2022">>
application == "app"

Devices == {"d1", "d2"}
DeviceOrder == <<"d1", "d2">>
Loops == {"scan", "event"}

(* a sensor Thing that goes by the name of the device *)
sensor_thing_same(device) == device

sensor_thing(device) == device \o "/sensor"

ThingsOf(D) == D \cup {sensor_thing(d) : d \in D}
ThingNames == ThingsOf(Devices)

-----------------------------------------------------------------------------
(* Maps with string keys are sets of <<key, value>> pairs, one per key.    *)

MapGet(m, k) == IF \E e \in m : e[1] = k
                THEN Some((CHOOSE e \in m : e[1] = k)[2])
                ELSE None
MapInsert(m, k, v) == {e \in m : e[1] # k} \cup {<<k, v>>}

(* a selector that looks at the label keys only *)
matches_keys_only(sel, device) ==
    \A e \in sel : IsSome(MapGet(device.labels, e[1]))

matches(sel, device) ==
    \A e \in sel :
        LET l == MapGet(device.labels, e[1])
        IN  IsSome(l) /\ Get(l) = e[2]

ensure_finalizer(device, f) ==
    [changed |-> f \notin device.finalizers,
     device  |-> [device EXCEPT !.finalizers = @ \cup {f}]]

(* a removal that clears the finalizers of the device *)
remove_finalizer_all(device, f) == [device EXCEPT !.finalizers = {}]

remove_finalizer(device, f) == [device EXCEPT !.finalizers = @ \ {f}]

-----------------------------------------------------------------------------
(* client.rs: how an HTTP response becomes a Result<_, ClientError>.       *)
(* A result is [kind, code]: kind "Ok" with code the value returned        *)
(* ("some", "none", "true", "false"), or kind "Response" / "Service" with  *)
(* code the HTTP status.  body says whether the response body parses as    *)
(* ErrorInformation.                                                       *)

Ok(v) == [kind |-> "Ok", code |-> v]

default_response(status, body) ==
    IF body THEN [kind |-> "Service", code |-> status]
            ELSE [kind |-> "Response", code |-> status]

create_response(status, body) ==
    IF status \in {"NO_CONTENT", "CREATED", "ACCEPTED"} THEN Ok("none")
    ELSE IF status = "OK" THEN Ok("some")
    ELSE default_response(status, body)

read_response(status, body) ==
    IF status = "OK" THEN Ok("some")
    ELSE IF status = "NOT_FOUND" THEN Ok("none")
    ELSE default_response(status, body)

delete_response(status, body) ==
    IF status \in {"OK", "NO_CONTENT"} THEN Ok("true")
    ELSE IF status = "NOT_FOUND" THEN Ok("false")
    ELSE default_response(status, body)

update_response(status, body) ==
    IF status \in {"NO_CONTENT", "ACCEPTED"} THEN Ok("none")
    ELSE IF status = "OK" THEN Ok("some")
    ELSE default_response(status, body)

(* The registry client (drogue_client) answers an update of a device that  *)
(* is gone with Ok(false), a get of one with Ok(None).                     *)
registry_update_response(status, body) ==
    IF status \in {"OK", "NO_CONTENT"} THEN Ok("true")
    ELSE IF status = "NOT_FOUND" THEN Ok("false")
    ELSE default_response(status, body)

IsErr(r, kind, codes) == r.kind = kind /\ r.code \in codes

-----------------------------------------------------------------------------
(* twin.rs: how each call's result becomes the attempt's outcome.          *)
(* An outcome is "Complete", "Retry" or "Err" (the Err of anyhow::Result).  *)

add_finalizer_outcome(r) ==
    IF r.kind = "Ok" THEN "Retry"
    ELSE IF IsErr(r, "Response", {"CONFLICT"}) THEN "Retry"
    ELSE IF IsErr(r, "Service", {"CONFLICT"}) THEN "Retry"
    ELSE "Err"

ensure_device_outcome(r) ==
    IF r.kind = "Ok" THEN "Complete"
    ELSE IF IsErr(r, "Response", {"NOT_FOUND", "CONFLICT"}) THEN "Retry"
    ELSE "Err"

(* an ensure_sensor() that takes every answer to its update for success *)
sensor_update_outcome_lenient(r) == "Complete"

sensor_update_outcome(r) ==
    IF r.kind = "Ok" THEN "Complete"
    ELSE IF IsErr(r, "Response", {"CONFLICT", "NOT_FOUND"}) THEN "Retry"
    ELSE IF IsErr(r, "Service", {"CONFLICT"}) THEN "Retry"
    ELSE "Err"

sensor_create_outcome(r) ==
    IF r.kind = "Ok" THEN "Complete"
    ELSE IF IsErr(r, "Response", {"CONFLICT"}) THEN "Retry"
    ELSE IF IsErr(r, "Service", {"CONFLICT"}) THEN "Retry"
    ELSE "Err"

(* a delete that takes a Thing already gone for a failure *)
missing_outcome_strict(r) ==
    IF r.kind = "Ok" /\ r.code = "true" THEN "Complete" ELSE "Err"

missing_outcome(r) ==
    IF r.kind = "Ok" \/ IsErr(r, "Response", {"NOT_FOUND"}) THEN "Complete"
    ELSE "Err"

remove_finalizer_outcome(r) ==
    IF r.kind = "Ok" \/ IsErr(r, "Response", {"NOT_FOUND"}) THEN "Complete"
    ELSE "Err"

(* changed(): which branch a device takes *)
route(sel, device) ==
    IF ~matches(sel, device) THEN "removing"
    ELSE IF device.deletion_timestamp THEN "removing"
    ELSE "ensure"

-----------------------------------------------------------------------------
(* config.rs / twin.rs: the template and its sync into a Thing.            *)
(* An IndexMap is a sequence of <<key, value>> pairs (insertion order);    *)
(* a BTreeMap is a set of <<key, value>> pairs (its order is the keys').   *)

Range(s) == {s[i] : i \in 1..Len(s)}
Keys(m) == {m[i][1] : i \in 1..Len(m)}
IndexOf(m, k) == CHOOSE i \in 1..Len(m) : m[i][1] = k

SyntheticTypeFrom(syn) ==
    IF syn.kind = "javaScript" THEN [kind |-> "JavaScript", src |-> syn.src]
    ELSE [kind |-> "Alias", src |-> syn.src]

CodeFrom(code) == [kind |-> "JavaScript", src |-> code.src]

(* IndexMap::remove is swap_remove: the last entry takes the removed place *)
swap_remove(m, k) ==
    IF k \notin Keys(m) THEN m
    ELSE LET i == IndexOf(m, k)
             n == Len(m)
         IN  [j \in 1..(n - 1) |-> IF j = i THEN m[n] ELSE m[j]]

RECURSIVE remove_all(_, _)
remove_all(m, ks) ==
    IF ks = <<>> THEN m ELSE remove_all(swap_remove(m, Head(ks)), Tail(ks))

(* the orders in which a HashSet may hand out its elements *)
RECURSIVE Orders(_)
Orders(S) ==
    IF S = {} THEN {<<>>}
    ELSE UNION {{<<x>> \o o : o \in Orders(S \ {x})} : x \in S}

(* a creator that fills in a value *)
NewSynthetic_valued(type, now) ==
    [type |-> SyntheticTypeFrom(type), value |-> "0", last_update |-> now]

NewSynthetic(type, now) ==
    [type |-> SyntheticTypeFrom(type), value |-> "null", last_update |-> now]
SetSyntheticType(type, current) ==
    [current EXCEPT !.type = SyntheticTypeFrom(type)]
NewDeleting(code) == [code |-> CodeFrom(code)]
SetDeletingCode(code, current) == [current EXCEPT !.code = CodeFrom(code)]
NewChanged(code) == [code |-> CodeFrom(code), last_log |-> <<>>]
(* a mutator that records the change of code in the handler's log *)
SetChangedCode_logging(code, current) ==
    [current EXCEPT !.code = CodeFrom(code), !.last_log = Append(@, "code")]

SetChangedCode(code, current) == [current EXCEPT !.code = CodeFrom(code)]
NewTimer(timer) ==
    [code |-> CodeFrom(timer.code), period |-> timer.period, stopped |-> FALSE,
     last_started |-> None, last_run |-> None, last_log |-> <<>>,
     initial_delay |-> None]
(* a mutator that starts the timer again *)
SetTimer_restart(timer, current) ==
    [current EXCEPT !.code = CodeFrom(timer.code), !.period = timer.period,
                    !.stopped = FALSE]

SetTimer(timer, current) ==
    [current EXCEPT !.code = CodeFrom(timer.code), !.period = timer.period]

(* the closures configure_sensor hands to the sync of each family *)
creator(family, value, now) ==
    IF family = "synthetics" THEN NewSynthetic(value, now)
    ELSE IF family = "deleting" THEN NewDeleting(value)
    ELSE IF family = "changed" THEN NewChanged(value)
    ELSE NewTimer(value)

mutator(family, value, current) ==
    IF family = "synthetics" THEN SetSyntheticType(value, current)
    ELSE IF family = "deleting" THEN SetDeletingCode(value, current)
    ELSE IF family = "changed" THEN SetChangedCode(value, current)
    ELSE SetTimer(value, current)

(* a sync that leaves the entries the template no longer has *)
sync_btreemap_keep(config, target, family, now) ==
    {e \in target : e[1] \notin Keys(config)} \cup
    {<<c[1], IF IsSome(MapGet(target, c[1]))
             THEN mutator(family, c[2], Get(MapGet(target, c[1])))
             ELSE creator(family, c[2], now)>> : c \in Range(config)}

sync_btreemap(config, target, family, now) ==
    LET keys == {e[1] : e \in target} \ Keys(config)
        pass == {e \in target : e[1] \notin Keys(config)} \cup
                {<<c[1], IF IsSome(MapGet(target, c[1]))
                         THEN mutator(family, c[2], Get(MapGet(target, c[1])))
                         ELSE creator(family, c[2], now)>> : c \in Range(config)}
    IN  {e \in pass : e[1] \notin keys}

(* the set of maps the sync may leave: one per order of the removals *)
sync_indexmap(config, target, family, now) ==
    LET keys == Keys(target) \ Keys(config)
        mutated == [i \in 1..Len(target) |->
                       IF target[i][1] \in Keys(config)
                       THEN <<target[i][1],
                              mutator(family,
                                      config[IndexOf(config, target[i][1])][2],
                                      target[i][2])>>
                       ELSE target[i]]
        vacant == SelectSeq(config, LAMBDA c : c[1] \notin Keys(target))
        created == [i \in 1..Len(vacant) |->
                       <<vacant[i][1], creator(family, vacant[i][2], now)>>]
    IN  {remove_all(mutated \o created, o) : o \in Orders(keys)}

(* the Things configure_sensor may leave *)
configure_sensor(tpl, thing, now) ==
    LET synth == sync_btreemap(tpl.synthetics, thing.synthetic_state,
                               "synthetics", now)
    IN  {[thing EXCEPT !.synthetic_state = synth, !.deleting = d,
                       !.changed = c, !.timers = t] :
            d \in sync_indexmap(tpl.deleting, thing.deleting, "deleting", now),
            c \in sync_indexmap(tpl.changed, thing.changed, "changed", now),
            t \in sync_indexmap(tpl.timers, thing.timers, "timers", now)}

(* Thing::new *)
NewThing(app, name) ==
    [application |-> app, name |-> name, rv |-> "cur", annotations |-> {},
     synthetic_state |-> {}, deleting |-> <<>>, changed |-> <<>>,
     timers |-> <<>>]

-----------------------------------------------------------------------------
(* Values of the model *)

Selectors == {{}, {<<"k", "a">>}}
LabelChoices == {{}, {<<"k", "a">>}, {<<"k", "b">>}}

JsCode(src) == [kind |-> "javaScript", src |-> src]

Template0 ==
    [synthetics |-> << <<"temperature", JsCode("t") >> >>,
     deleting   |-> << <<"cleanup", JsCode("c") >> >>,
     changed    |-> << <<"hierarchy", JsCode("h") >> >>,
     timers     |-> << <<"poll", [code |-> JsCode("p"), period |-> 1] >> >>]

NewDevice(name, labels, finalizers) ==
    [name |-> name, labels |-> labels, deletion_timestamp |-> FALSE,
     finalizers |-> finalizers, rv |-> "cur"]

(* a sensor Thing as an older template left it, with runtime state *)
DriftedSensor(name) ==
    [NewThing(application, name) EXCEPT
        !.synthetic_state =
            {<<"temperature", [type |-> [kind |-> "Alias", src |-> "x"],
                               value |-> "21", last_update |-> 0]>>,
             <<"humidity", [type |-> [kind |-> "Alias", src |-> "y"],
                            value |-> "null", last_update |-> 0]>>},
        !.changed = << <<"legacy", [code |-> CodeFrom(JsCode("l")),
                                    last_log |-> <<"log">>]>>,
                       <<"hierarchy", [code |-> CodeFrom(JsCode("h0")),
                                       last_log |-> <<"log">>]>> >>]

Old(x) == [x EXCEPT !.rv = "old"]
Data(x) == [x EXCEPT !.rv = "cur"]

NoAttempt ==
    [thing |-> None, op |-> "none", id |-> "", dev |-> None, step |-> "done",
     calls |-> <<>>, outcome |-> "none"]

Call(api, op, name, body, result) ==
    [api |-> api, op |-> op, app |-> application, name |-> name,
     body |-> body, result |-> result]

(* changed(device) that provisions without committing the finalizer first *)
BeginChanged_no_commit(device) ==
    LET op == route(selector, device)
    IN  [op |-> op, id |-> device.name, dev |-> Some(device),
         step |-> IF op = "removing" THEN "delete" ELSE "sensor_get",
         thing |-> None, calls |-> <<>>, outcome |-> "none"]

(* changed(device) up to its first await *)
BeginChanged(device) ==
    LET op == route(selector, device)
    IN  [op |-> op, id |-> device.name, dev |-> Some(device),
         step |-> IF op = "removing" THEN "delete"
                  ELSE IF ensure_finalizer(device, FINALIZER).changed
                       THEN "add_finalizer" ELSE "sensor_get",
         thing |-> None, calls |-> <<>>, outcome |-> "none"]

(* missing(id) up to its first await *)
BeginMissing(id) ==
    [op |-> "missing", id |-> id, dev |-> None, step |-> "delete",
     thing |-> None, calls |-> <<>>, outcome |-> "none"]

Logged(a, call) == [a EXCEPT !.calls = Append(@, call)]
Ended(a, outcome) ==
    [a EXCEPT !.step = "done", !.outcome = outcome, !.thing = None]

(* a write of a stored object makes every copy still in use stale *)
AgeDev(a, d) ==
    IF a.step # "done" /\ IsSome(a.dev) /\ Get(a.dev).name = d
    THEN [a EXCEPT !.dev = Some(Old(Get(a.dev)))] ELSE a
AgeThing(a, n) ==
    IF IsSome(a.thing) /\ Get(a.thing).name = n
    THEN [a EXCEPT !.thing = Some(Old(Get(a.thing)))] ELSE a
AgeList(l, from, d) ==
    [i \in 1..Len(l) |-> IF i > from /\ l[i].name = d THEN Old(l[i]) ELSE l[i]]

Bodies(status) ==
    IF status \in {"OK", "NO_CONTENT", "CREATED"} THEN {FALSE} ELSE BOOLEAN

(* the registry's answer to update_device *)
RegistryUpdateStatus(device) ==
    IF ~IsSome(registry[device.name]) THEN "NOT_FOUND"
    ELSE IF device.rv = "old" THEN "CONFLICT"
    ELSE "NO_CONTENT"

(* the twin service's answers *)
CreateThingStatus(thing) ==
    IF IsSome(things[thing.name]) THEN "CONFLICT" ELSE "CREATED"
UpdateThingStatus(thing) ==
    IF ~IsSome(things[thing.name]) THEN "NOT_FOUND"
    ELSE IF thing.rv = "old" THEN "CONFLICT"
    ELSE "NO_CONTENT"
DeleteThingStatus(name) ==
    IF IsSome(things[name]) THEN "NO_CONTENT" ELSE "NOT_FOUND"
GetStatus(stored) == IF IsSome(stored) THEN "OK" ELSE "NOT_FOUND"

ctlVars == <<scanpc, idx, evpc, evId, panicked>>
cfgVars == <<selector, template, clock>>

-----------------------------------------------------------------------------
(* The reconciler's steps, for loop p; F is the set of statuses a store    *)
(* may answer on top of the one its state calls for.                       *)

(* the registry write of a device, and what it does to the copies *)
UpdateDevice(p, device, status, next) ==
    LET ok == status = "NO_CONTENT"
    IN  /\ registry' = IF ok THEN [registry EXCEPT ![device.name] = Some(Data(device))]
                       ELSE registry
        /\ devices' = IF ok THEN AgeList(devices, IF p = "scan" THEN idx ELSE 0,
                                         device.name)
                      ELSE devices
        /\ att' = [q \in Loops |->
                      IF q = p THEN next
                      ELSE IF ok THEN AgeDev(att[q], device.name) ELSE att[q]]

(* ensure(): the device lacks the finalizer *)
ensure_add_finalizer(p, F) ==
    /\ ~panicked
    /\ att[p].step = "add_finalizer"
    /\ LET device == ensure_finalizer(Get(att[p].dev), FINALIZER).device
       IN  \E status \in {RegistryUpdateStatus(device)} \cup F :
           \E body \in Bodies(status) :
              LET r == registry_update_response(status, body)
                  call == Call("registry", "update_device", device.name,
                               Some(Data(device)), r)
              IN  UpdateDevice(p, device, status,
                               Ended(Logged(att[p], call), add_finalizer_outcome(r)))
    /\ UNCHANGED <<things, stream, ctlVars, cfgVars, ext>>

(* ensure_sensor(): get_thing of the sensor Thing *)
ensure_sensor_get(p, F) ==
    /\ ~panicked
    /\ att[p].step = "sensor_get"
    /\ LET name == sensor_thing(Get(att[p].dev).name)
       IN  \E status \in {GetStatus(things[name])} \cup F :
           \E body \in Bodies(status) :
              LET r == read_response(status, body)
                  a == Logged(att[p], Call("twin", "get_thing", name,
                                           IF status = "OK" THEN things[name]
                                           ELSE None, r))
              IN  att' = [att EXCEPT ![p] =
                            IF r.kind # "Ok" THEN Ended(a, "Err")
                            ELSE IF r.code = "some"
                                 THEN [a EXCEPT !.step = "sensor_update",
                                                !.thing = things[name]]
                                 ELSE [a EXCEPT !.step = "sensor_create"]]
    /\ UNCHANGED <<registry, things, stream, devices, ctlVars, cfgVars, ext>>

(* a write of a Thing, and what it does to the copies *)
WriteThing(p, name, stored, ok, next) ==
    /\ things' = IF ok THEN [things EXCEPT ![name] = stored] ELSE things
    /\ att' = [q \in Loops |->
                  IF q = p THEN next
                  ELSE IF ok THEN AgeThing(att[q], name) ELSE att[q]]

(* ensure_sensor() that skips the update of a Thing the sync left alone *)
ensure_sensor_update_if_changed(p, F) ==
    /\ ~panicked
    /\ att[p].step = "sensor_update"
    /\ \E thing \in configure_sensor(template, Get(att[p].thing), clock) :
          IF thing = Get(att[p].thing)
          THEN /\ att' = [att EXCEPT ![p] = [@ EXCEPT !.step = "device_get",
                                                      !.thing = None]]
               /\ UNCHANGED things
          ELSE \E status \in {UpdateThingStatus(thing)} \cup F :
               \E body \in Bodies(status) :
                  LET r == update_response(status, body)
                      o == sensor_update_outcome(r)
                      a == Logged(att[p], Call("twin", "update_thing", thing.name,
                                               Some(Data(thing)), r))
                  IN  WriteThing(p, thing.name, Some(Data(thing)),
                                 status = "NO_CONTENT",
                                 IF o = "Complete"
                                 THEN [a EXCEPT !.step = "device_get", !.thing = None]
                                 ELSE Ended(a, o))
    /\ UNCHANGED <<registry, stream, devices, ctlVars, cfgVars, ext>>

(* ensure_sensor(): configure_sensor and update_thing *)
ensure_sensor_update(p, F) ==
    /\ ~panicked
    /\ att[p].step = "sensor_update"
    /\ \E thing \in configure_sensor(template, Get(att[p].thing), clock) :
       \E status \in {UpdateThingStatus(thing)} \cup F :
       \E body \in Bodies(status) :
          LET r == update_response(status, body)
              o == sensor_update_outcome(r)
              a == Logged(att[p], Call("twin", "update_thing", thing.name,
                                       Some(Data(thing)), r))
          IN  WriteThing(p, thing.name, Some(Data(thing)), status = "NO_CONTENT",
                         IF o = "Complete"
                         THEN [a EXCEPT !.step = "device_get", !.thing = None]
                         ELSE Ended(a, o))
    /\ UNCHANGED <<registry, stream, devices, ctlVars, cfgVars, ext>>

(* ensure_sensor(): Thing::new, configure_sensor and create_thing *)
ensure_sensor_create(p, F) ==
    /\ ~panicked
    /\ att[p].step = "sensor_create"
    /\ \E thing \in configure_sensor(template,
                       NewThing(application, sensor_thing(Get(att[p].dev).name)),
                       clock) :
       \E status \in {CreateThingStatus(thing)} \cup F :
       \E body \in Bodies(status) :
          LET r == create_response(status, body)
              o == sensor_create_outcome(r)
              a == Logged(att[p], Call("twin", "create_thing", thing.name,
                                       Some(Data(thing)), r))
          IN  WriteThing(p, thing.name, Some(Data(thing)), status = "CREATED",
                         IF o = "Complete"
                         THEN [a EXCEPT !.step = "device_get", !.thing = None]
                         ELSE Ended(a, o))
    /\ UNCHANGED <<registry, stream, devices, ctlVars, cfgVars, ext>>

(* ensure_device(): get_thing of the device-facet Thing *)
ensure_device_get(p, F) ==
    /\ ~panicked
    /\ att[p].step = "device_get"
    /\ LET name == Get(att[p].dev).name
       IN  \E status \in {GetStatus(things[name])} \cup F :
           \E body \in Bodies(status) :
              LET r == read_response(status, body)
                  a == Logged(att[p], Call("twin", "get_thing", name,
                                           IF status = "OK" THEN things[name]
                                           ELSE None, r))
              IN  att' = [att EXCEPT ![p] =
                            IF r.kind # "Ok" THEN Ended(a, "Err")
                            ELSE IF r.code = "some"
                                 THEN [a EXCEPT !.step = "device_update",
                                                !.thing = things[name]]
                                 ELSE Ended(a, "Retry")]
    /\ UNCHANGED <<registry, things, stream, devices, ctlVars, cfgVars, ext>>

(* ensure_device(): stamp the annotation and update_thing *)
ensure_device_update(p, F) ==
    /\ ~panicked
    /\ att[p].step = "device_update"
    /\ LET thing == [Get(att[p].thing) EXCEPT
                        !.annotations = MapInsert(@, GROUP_ANNOTATION[1],
                                                  GROUP_ANNOTATION[2])]
       IN  \E status \in {UpdateThingStatus(thing)} \cup F :
           \E body \in Bodies(status) :
              LET r == update_response(status, body)
                  a == Logged(att[p], Call("twin", "update_thing", thing.name,
                                           Some(Data(thing)), r))
              IN  WriteThing(p, thing.name, Some(Data(thing)),
                             status = "NO_CONTENT",
                             Ended(a, ensure_device_outcome(r)))
    /\ UNCHANGED <<registry, stream, devices, ctlVars, cfgVars, ext>>

(* removing() that goes on to the finalizer whatever the delete returned *)
missing_delete_regardless(p, F) ==
    /\ ~panicked
    /\ att[p].step = "delete"
    /\ LET name == sensor_thing(att[p].id)
       IN  \E status \in {DeleteThingStatus(name)} \cup F :
           \E body \in Bodies(status) :
              LET r == delete_response(status, body)
                  a == Logged(att[p], Call("twin", "delete_thing", name, None, r))
              IN  WriteThing(p, name, None, status = "NO_CONTENT",
                             IF att[p].op = "removing"
                             THEN [a EXCEPT !.step = "remove_finalizer"]
                             ELSE Ended(a, missing_outcome(r)))
    /\ UNCHANGED <<registry, stream, devices, ctlVars, cfgVars, ext>>

(* missing(): delete_thing of the sensor Thing; removing() goes on from it *)
missing_delete(p, F) ==
    /\ ~panicked
    /\ att[p].step = "delete"
    /\ LET name == sensor_thing(att[p].id)
       IN  \E status \in {DeleteThingStatus(name)} \cup F :
           \E body \in Bodies(status) :
              LET r == delete_response(status, body)
                  o == missing_outcome(r)
                  a == Logged(att[p], Call("twin", "delete_thing", name, None, r))
              IN  WriteThing(p, name, None, status = "NO_CONTENT",
                             IF o = "Complete" /\ att[p].op = "removing"
                             THEN [a EXCEPT !.step = "remove_finalizer"]
                             ELSE Ended(a, o))
    /\ UNCHANGED <<registry, stream, devices, ctlVars, cfgVars, ext>>

(* removing(): write the device back without the finalizer *)
removing_update(p, F) ==
    /\ ~panicked
    /\ att[p].step = "remove_finalizer"
    /\ LET device == remove_finalizer(Get(att[p].dev), FINALIZER)
       IN  \E status \in {RegistryUpdateStatus(device)} \cup F :
           \E body \in Bodies(status) :
              LET r == registry_update_response(status, body)
                  call == Call("registry", "update_device", device.name,
                               Some(Data(device)), r)
              IN  UpdateDevice(p, device, status,
                               Ended(Logged(att[p], call),
                                     remove_finalizer_outcome(r)))
    /\ UNCHANGED <<things, stream, ctlVars, cfgVars, ext>>

-----------------------------------------------------------------------------
(* operator.rs: the periodic scanner *)

storeVars == <<registry, things>>

(* list_devices: the devices there are, in the registry's order *)
list_devices ==
    LET present == SelectSeq(DeviceOrder, LAMBDA d : IsSome(registry[d]))
    IN  [i \in 1..Len(present) |-> Get(registry[present[i]])]

(* reconcile_devices(): a tick, then list_devices; an error lists nothing *)
reconcile_devices(F) ==
    /\ ~panicked
    /\ scanpc = "tick"
    /\ \E status \in {"OK"} \cup F :
          devices' = IF status = "OK" THEN list_devices ELSE <<>>
    /\ scanpc' = "provision"
    /\ idx' = 0
    /\ UNCHANGED <<storeVars, stream, evpc, evId, att, panicked, cfgVars, ext>>

(* provision_devices() that stays on a device until it is Complete *)
provision_devices_until_complete ==
    /\ ~panicked
    /\ scanpc = "provision"
    /\ att["scan"].step = "done"
    /\ IF att["scan"].outcome = "Err"
       THEN /\ panicked' = TRUE
            /\ UNCHANGED <<scanpc, idx, att>>
       ELSE IF att["scan"].outcome = "Retry"
       THEN /\ att' = [att EXCEPT !["scan"] = BeginChanged(devices[idx])]
            /\ UNCHANGED <<scanpc, idx, panicked>>
       ELSE IF idx < Len(devices)
       THEN /\ idx' = idx + 1
            /\ att' = [att EXCEPT !["scan"] = BeginChanged(devices[idx + 1])]
            /\ UNCHANGED <<scanpc, panicked>>
       ELSE /\ scanpc' = "tick"
            /\ att' = [att EXCEPT !["scan"] = NoAttempt]
            /\ UNCHANGED <<idx, panicked>>
    /\ UNCHANGED <<storeVars, stream, devices, evpc, evId, cfgVars, ext>>

(* provision_devices(): the for loop; `?` on an error ends it in expect() *)
provision_devices ==
    /\ ~panicked
    /\ scanpc = "provision"
    /\ att["scan"].step = "done"
    /\ IF att["scan"].outcome = "Err"
       THEN /\ panicked' = TRUE
            /\ UNCHANGED <<scanpc, idx, att>>
       ELSE IF idx < Len(devices)
       THEN /\ idx' = idx + 1
            /\ att' = [att EXCEPT !["scan"] = BeginChanged(devices[idx + 1])]
            /\ UNCHANGED <<scanpc, panicked>>
       ELSE /\ scanpc' = "tick"
            /\ att' = [att EXCEPT !["scan"] = NoAttempt]
            /\ UNCHANGED <<idx, panicked>>
    /\ UNCHANGED <<storeVars, stream, devices, evpc, evId, cfgVars, ext>>

-----------------------------------------------------------------------------
(* operator.rs: the event consumer *)

Garbage == [device |-> None, decodes |-> FALSE, ty |-> ""]
Event(ty, device) == [device |-> device, decodes |-> TRUE, ty |-> ty]
Changes(D) == {Event(REGISTRY_TYPE, Some(d)) : d \in D}
Messages(D) ==
    {Garbage, Event("io.drogue.other", Some("d1")), Event(REGISTRY_TYPE, None)}
    \cup Changes(D)

(* handle_event() that does not look at the type of the event *)
process_events_any_type ==
    /\ ~panicked
    /\ evpc = "recv"
    /\ stream # <<>>
    /\ stream' = Tail(stream)
    /\ LET m == Head(stream)
       IN  IF ~m.decodes
           THEN evpc' = "stopped" /\ UNCHANGED evId
           ELSE IF ~IsSome(m.device)
           THEN UNCHANGED <<evpc, evId>>
           ELSE evpc' = "fetch" /\ evId' = Get(m.device)
    /\ UNCHANGED <<storeVars, devices, scanpc, idx, att, panicked, cfgVars, ext>>

(* a consumer that takes the next message while a dispatch is going on *)
process_events_eager ==
    /\ ~panicked
    /\ evpc \in {"recv", "attempt"}
    /\ stream # <<>>
    /\ stream' = Tail(stream)
    /\ LET m == Head(stream)
       IN  IF ~m.decodes
           THEN evpc' = "stopped" /\ UNCHANGED evId
           ELSE IF m.ty # REGISTRY_TYPE
           THEN UNCHANGED <<evpc, evId>>
           ELSE IF ~IsSome(m.device)
           THEN UNCHANGED <<evpc, evId>>
           ELSE evpc' = "fetch" /\ evId' = Get(m.device)
    /\ UNCHANGED <<storeVars, devices, scanpc, idx, att, panicked, cfgVars, ext>>

(* process_events() takes a message; handle_event() up to its loop *)
process_events ==
    /\ ~panicked
    /\ evpc = "recv"
    /\ stream # <<>>
    /\ stream' = Tail(stream)
    /\ LET m == Head(stream)
       IN  IF ~m.decodes
           THEN evpc' = "stopped" /\ UNCHANGED evId
           ELSE IF m.ty # REGISTRY_TYPE
           THEN UNCHANGED <<evpc, evId>>
           ELSE IF ~IsSome(m.device)
           THEN UNCHANGED <<evpc, evId>>
           ELSE evpc' = "fetch" /\ evId' = Get(m.device)
    /\ UNCHANGED <<storeVars, devices, scanpc, idx, att, panicked, cfgVars, ext>>

(* handle_event(): get_device, then changed() or missing() *)
handle_event_fetch(F) ==
    /\ ~panicked
    /\ evpc = "fetch"
    /\ \E status \in {GetStatus(registry[evId])} \cup F :
          IF status = "OK"
          THEN /\ att' = [att EXCEPT !["event"] = BeginChanged(Get(registry[evId]))]
               /\ evpc' = "attempt"
               /\ UNCHANGED panicked
          ELSE IF status = "NOT_FOUND"
          THEN /\ att' = [att EXCEPT !["event"] = BeginMissing(evId)]
               /\ evpc' = "attempt"
               /\ UNCHANGED panicked
          ELSE /\ panicked' = TRUE
               /\ UNCHANGED <<att, evpc>>
    /\ UNCHANGED <<storeVars, stream, devices, scanpc, idx, evId, cfgVars, ext>>

(* handle_event() that retries on the device it fetched before *)
handle_event_outcome_no_refetch ==
    /\ ~panicked
    /\ evpc = "attempt"
    /\ att["event"].step = "done"
    /\ IF att["event"].outcome = "Complete"
       THEN /\ evpc' = "recv"
            /\ att' = [att EXCEPT !["event"] = NoAttempt]
            /\ UNCHANGED panicked
       ELSE IF att["event"].outcome = "Retry"
       THEN /\ att' = [att EXCEPT !["event"] =
                         IF IsSome(@.dev) THEN BeginChanged(Get(@.dev))
                         ELSE BeginMissing(@.id)]
            /\ UNCHANGED <<evpc, panicked>>
       ELSE /\ panicked' = TRUE
            /\ UNCHANGED <<evpc, att>>
    /\ UNCHANGED <<storeVars, stream, devices, scanpc, idx, evId, cfgVars, ext>>

(* handle_event() that logs an error and takes the next message *)
handle_event_outcome_swallow ==
    /\ ~panicked
    /\ evpc = "attempt"
    /\ att["event"].step = "done"
    /\ IF att["event"].outcome = "Retry"
       THEN /\ evpc' = "fetch"
            /\ att' = [att EXCEPT !["event"] = NoAttempt]
       ELSE /\ evpc' = "recv"
            /\ att' = [att EXCEPT !["event"] = NoAttempt]
    /\ UNCHANGED <<storeVars, stream, devices, scanpc, idx, evId, panicked,
                   cfgVars, ext>>

(* handle_event() that makes one attempt and leaves a Retry at that *)
handle_event_outcome_once ==
    /\ ~panicked
    /\ evpc = "attempt"
    /\ att["event"].step = "done"
    /\ IF att["event"].outcome \in {"Complete", "Retry"}
       THEN /\ evpc' = "recv"
            /\ att' = [att EXCEPT !["event"] = NoAttempt]
            /\ UNCHANGED panicked
       ELSE /\ panicked' = TRUE
            /\ UNCHANGED <<evpc, att>>
    /\ UNCHANGED <<storeVars, stream, devices, scanpc, idx, evId, cfgVars, ext>>

(* handle_event(): the match on the outcome *)
handle_event_outcome ==
    /\ ~panicked
    /\ evpc = "attempt"
    /\ att["event"].step = "done"
    /\ IF att["event"].outcome = "Complete"
       THEN /\ evpc' = "recv"
            /\ att' = [att EXCEPT !["event"] = NoAttempt]
            /\ UNCHANGED panicked
       ELSE IF att["event"].outcome = "Retry"
       THEN /\ evpc' = "fetch"
            /\ att' = [att EXCEPT !["event"] = NoAttempt]
            /\ UNCHANGED panicked
       ELSE /\ panicked' = TRUE
            /\ UNCHANGED <<evpc, att>>
    /\ UNCHANGED <<storeVars, stream, devices, scanpc, idx, evId, cfgVars, ext>>

-----------------------------------------------------------------------------
(* The world around the operator: the registry's users, the twin service's *)
(* other clients, the event bus.                                           *)

AgeAllDev(d) ==
    /\ devices' = AgeList(devices, idx, d)
    /\ att' = [q \in Loops |-> AgeDev(att[q], d)]
AgeAllThing(n) == att' = [q \in Loops |-> AgeThing(att[q], n)]

ExtCreateDevice(D) ==
    /\ ext < MaxExt
    /\ \E d \in D, l \in LabelChoices, f \in {{}, {"other"}} :
          /\ ~IsSome(registry[d])
          /\ registry' = [registry EXCEPT ![d] = Some(NewDevice(d, l, f))]
    /\ ext' = ext + 1
    /\ UNCHANGED <<things, stream, devices, att, ctlVars, cfgVars>>

ExtLabelDevice(D) ==
    /\ ext < MaxExt
    /\ \E d \in D, l \in LabelChoices :
          /\ IsSome(registry[d])
          /\ Get(registry[d]).labels # l
          /\ registry' = [registry EXCEPT ![d] = Some([Get(@) EXCEPT !.labels = l])]
          /\ AgeAllDev(d)
    /\ ext' = ext + 1
    /\ UNCHANGED <<things, stream, ctlVars, cfgVars>>

(* a delete marks the device while finalizers hold it, and removes it else *)
ExtDeleteDevice(D) ==
    /\ ext < MaxExt
    /\ \E d \in D :
          /\ IsSome(registry[d])
          /\ ~Get(registry[d]).deletion_timestamp
          /\ registry' = [registry EXCEPT ![d] =
                IF Get(@).finalizers = {} THEN None
                ELSE Some([Get(@) EXCEPT !.deletion_timestamp = TRUE])]
          /\ AgeAllDev(d)
    /\ ext' = ext + 1
    /\ UNCHANGED <<things, stream, ctlVars, cfgVars>>

(* the owner of another finalizer is done *)
ExtDropFinalizer(D) ==
    /\ ext < MaxExt
    /\ \E d \in D :
          /\ IsSome(registry[d])
          /\ "other" \in Get(registry[d]).finalizers
          /\ registry' = [registry EXCEPT ![d] =
                Some([Get(@) EXCEPT !.finalizers = @ \ {"other"}])]
          /\ AgeAllDev(d)
    /\ ext' = ext + 1
    /\ UNCHANGED <<things, stream, ctlVars, cfgVars>>

(* the registry drops a deleted device no finalizer holds any more *)
RegistryReap(D) ==
    /\ \E d \in D :
          /\ IsSome(registry[d])
          /\ Get(registry[d]).deletion_timestamp
          /\ Get(registry[d]).finalizers = {}
          /\ registry' = [registry EXCEPT ![d] = None]
          /\ AgeAllDev(d)
    /\ UNCHANGED <<things, stream, ctlVars, cfgVars, ext>>

(* another actor provisions the device-facet Thing *)
ExtProvisionThing(D) ==
    /\ ext < MaxExt
    /\ \E d \in D :
          /\ ~IsSome(things[d])
          /\ things' = [things EXCEPT ![d] = Some(NewThing(application, d))]
          /\ AgeAllThing(d)
    /\ ext' = ext + 1
    /\ UNCHANGED <<registry, stream, devices, ctlVars, cfgVars>>

(* the twin service or another client writes a Thing *)
ExtWriteThing(D) ==
    /\ ext < MaxExt
    /\ \E n \in ThingsOf(D) :
          /\ IsSome(things[n])
          /\ things' = [things EXCEPT ![n] =
                IF n \in Devices THEN @ ELSE Some(DriftedSensor(n))]
          /\ AgeAllThing(n)
    /\ ext' = ext + 1
    /\ UNCHANGED <<registry, stream, devices, ctlVars, cfgVars>>

ExtDeleteThing(D) ==
    /\ ext < MaxExt
    /\ \E n \in ThingsOf(D) :
          /\ IsSome(things[n])
          /\ things' = [things EXCEPT ![n] = None]
          /\ AgeAllThing(n)
    /\ ext' = ext + 1
    /\ UNCHANGED <<registry, stream, devices, ctlVars, cfgVars>>

(* the bus delivers a message *)
Publish(M) ==
    /\ Len(stream) < MaxQueue
    /\ \E m \in M : stream' = Append(stream, m)
    /\ UNCHANGED <<storeVars, devices, att, ctlVars, cfgVars, ext>>

-----------------------------------------------------------------------------
(* The operator and its world *)

(* what a store may answer besides what its state calls for *)
Faults == {"INTERNAL_SERVER_ERROR"}
NoFaults == {}

(* the devices of D may be there already, as their owner created them *)
InitOf(D) ==
    /\ selector \in Selectors
    /\ template = Template0
    /\ registry \in [Devices -> {None} \cup
           {Some(NewDevice(d, l, {})) : d \in Devices, l \in LabelChoices}]
    /\ \A d \in Devices :
          /\ d \notin D => registry[d] = None
          /\ IsSome(registry[d]) => Get(registry[d]).name = d
    /\ things = [n \in ThingNames |-> None]
    /\ stream = <<>>
    /\ scanpc = "tick"
    /\ devices = <<>>
    /\ idx = 0
    /\ evpc = "recv"
    /\ evId = ""
    /\ att = [p \in Loops |-> NoAttempt]
    /\ panicked = FALSE
    /\ clock = 0
    /\ ext = 0

Init == InitOf({"d1"})

(* ensure() and what it calls *)
ensure(p, F) ==
    \/ ensure_add_finalizer(p, F)
    \/ ensure_sensor_get(p, F)
    \/ ensure_sensor_update(p, F)
    \/ ensure_sensor_create(p, F)
    \/ ensure_device_get(p, F)
    \/ ensure_device_update(p, F)

Steps(p, F) ==
    \/ ensure(p, F)
    \/ missing_delete(p, F)
    \/ removing_update(p, F)

Reconciler(F) == \E p \in Loops : Steps(p, F)

Scanner(F) == reconcile_devices(F) \/ provision_devices

Consumer(F) == process_events \/ handle_event_fetch(F) \/ handle_event_outcome

(* the world is followed while the operator runs *)
World(D) ==
    /\ ~panicked
    /\ \/ ExtCreateDevice(D)
       \/ ExtLabelDevice(D)
       \/ ExtDeleteDevice(D)
       \/ ExtDropFinalizer(D)
       \/ RegistryReap(D)
       \/ ExtProvisionThing(D)
       \/ ExtWriteThing(D)
       \/ ExtDeleteThing(D)

Bus(M) == ~panicked /\ Publish(M)

(* both loops against stores that answer success, NotFound or Conflict *)
Next ==
    \/ Reconciler(NoFaults)
    \/ Scanner(NoFaults)
    \/ Consumer(NoFaults)
    \/ World({"d1"})
    \/ Bus(Changes({"d1"}))

Spec == Init /\ [][Next]_vars

(* what the scheduling gives: a loop that can take a step takes it *)
Fairness ==
    /\ \A p \in Loops : WF_vars(Steps(p, NoFaults))
    /\ WF_vars(Scanner(NoFaults))
    /\ WF_vars(Consumer(NoFaults))

(* the scanner alone, no message ever delivered, over two devices *)
InitScan == InitOf(Devices)

NextScan ==
    \/ Reconciler(NoFaults)
    \/ Scanner(NoFaults)
    \/ World(Devices)

SpecScan == InitScan /\ [][NextScan]_vars /\ Fairness

(* both loops on a device that is there and then deleted; the registry    *)
(* may announce what happens to it                                        *)
InitLive ==
    /\ InitOf({"d1"})
    /\ selector = {<<"k", "a">>}
    /\ registry["d1"] = Some(NewDevice("d1", {<<"k", "a">>}, {}))

WorldLive ==
    /\ ~panicked
    /\ \/ ExtDeleteDevice({"d1"})
       \/ RegistryReap({"d1"})
       \/ ExtProvisionThing({"d1"})

NextLive ==
    \/ Reconciler(NoFaults)
    \/ Scanner(NoFaults)
    \/ Consumer(NoFaults)
    \/ WorldLive
    \/ Bus(Changes({"d1"}))

SpecLive == InitLive /\ [][NextLive]_vars /\ Fairness

(* the event path alone on a fresh matching device; the only other writer *)
(* is the one that provisions the device-facet Thing                      *)
InitE2E ==
    /\ InitOf({"d1"})
    /\ IsSome(registry["d1"])
    /\ matches(selector, Get(registry["d1"]))

NextE2E ==
    \/ ensure("event", NoFaults)
    \/ Consumer(NoFaults)
    \/ (~panicked /\ ExtProvisionThing({"d1"}))
    \/ Bus(Changes({"d1"}))

SpecE2E == InitE2E /\ [][NextE2E]_vars

-----------------------------------------------------------------------------
(* What the claims read off an attempt *)

Last(q) == q[Len(q)]
IsCall(c, api, op, name) ==
    c.api = api /\ c.op = op /\ c.app = application /\ c.name = name
Succeeded(c) == c.result.kind = "Ok"
Mutating(c) ==
    c.op \in {"update_device", "create_thing", "update_thing", "delete_thing"}
WithFinalizer(d) == [Data(d) EXCEPT !.finalizers = @ \cup {"twin"}]
WithoutFinalizer(d) == [Data(d) EXCEPT !.finalizers = @ \ {"twin"}]
FailsSelector(d) == \E e \in selector : e \notin d.labels

-----------------------------------------------------------------------------
(* C1: an Ensuring attempt on a device that lacks the finalizer makes one  *)
(* call only, the registry write of the device with the finalizer added,   *)
(* and ends in Retry when that write succeeds; no Thing call is made by an *)
(* Ensuring attempt unless its input device carries the finalizer.         *)
C1_FinalizerProtocol ==
    \A p \in Loops :
        LET a == att[p]
        IN  a.op = "ensure" =>
            LET d == Get(a.dev)
            IN  /\ "twin" \notin d.finalizers =>
                     /\ Len(a.calls) <= 1
                     /\ a.step = "done" <=> Len(a.calls) = 1
                     /\ \A i \in 1..Len(a.calls) :
                           /\ IsCall(a.calls[i], "registry", "update_device", d.name)
                           /\ a.calls[i].body = Some(WithFinalizer(d))
                           /\ Succeeded(a.calls[i]) => a.outcome = "Retry"
                /\ (\E i \in 1..Len(a.calls) : a.calls[i].api = "twin")
                     => "twin" \in d.finalizers

C1_Witness ==
    \E p \in Loops :
        /\ att[p].op = "ensure"
        /\ "twin" \notin Get(att[p].dev).finalizers
        /\ att[p].step = "done"
        /\ att[p].calls[1].result = Ok("true")
        /\ att[p].outcome = "Retry"
        /\ "twin" \in Get(registry[att[p].id]).finalizers

(* C2: an attempt whose write was answered with Conflict ends in Retry,    *)
(* whichever write it was and however the conflict is encoded.             *)
C2_ConflictYieldsRetry ==
    \A p \in Loops :
        LET a == att[p]
        IN  ( /\ a.step = "done"
              /\ a.calls # <<>>
              /\ Mutating(Last(a.calls))
              /\ Last(a.calls).result.kind \in {"Response", "Service"}
              /\ Last(a.calls).result.code = "CONFLICT" )
            => a.outcome = "Retry"

(* C5: the event path starts an attempt only from a get_device made in the *)
(* same step, changed() on the device it returned or missing() when it     *)
(* returned none; Retry leads back to get_device, and the dispatch is over *)
(* only after Complete.                                                    *)
C5_Dispatcher ==
    [][ /\ (att["event"].op = "none" /\ att'["event"].op # "none") =>
              /\ evpc = "fetch" /\ evpc' = "attempt"
              /\ att'["event"].calls = <<>>
              /\ IF IsSome(registry[evId])
                 THEN /\ att'["event"].op \in {"ensure", "removing"}
                      /\ att'["event"].dev = registry[evId]
                 ELSE /\ att'["event"].op = "missing"
                      /\ att'["event"].id = evId
        /\ (att["event"].step = "done" /\ att["event"].outcome = "Retry"
              /\ <<evpc, att["event"]>>' # <<evpc, att["event"]>>) =>
              /\ evpc' = "fetch"
              /\ att'["event"] = NoAttempt
        /\ (evpc = "attempt" /\ att["event"].op # "none"
              /\ att["event"].step # "done") => evpc' = "attempt"
        /\ (evpc # "recv" /\ evpc' = "recv") =>
              /\ evpc = "attempt"
              /\ att["event"].step = "done"
              /\ att["event"].outcome = "Complete"
      ]_vars

C5_Witness ==
    /\ evpc = "attempt"
    /\ att["event"].op = "ensure"
    /\ "twin" \in Get(att["event"].dev).finalizers
    /\ att["event"].step = "done"
    /\ att["event"].outcome = "Retry"

(* C9: changed() takes a device to Removing exactly when it fails the      *)
(* selector (a selector pair is not among its labels) or is soft-deleted,  *)
(* and to Ensuring otherwise; Removing ends in Complete exactly when the   *)
(* delete of the sensor Thing and then the write of the device without the *)
(* finalizer were answered with success or not-found.                      *)
C9_Routing ==
    \A p \in Loops :
        LET a == att[p]
        IN  a.op \in {"ensure", "removing"} =>
            LET d == Get(a.dev)
                gone == /\ Len(a.calls) = 2
                        /\ IsCall(a.calls[1], "twin", "delete_thing",
                                  d.name \o "/sensor")
                        /\ a.calls[1].result \in {Ok("true"), Ok("false")}
                        /\ IsCall(a.calls[2], "registry", "update_device", d.name)
                        /\ a.calls[2].body = Some(WithoutFinalizer(d))
                        /\ a.calls[2].result \in {Ok("true"), Ok("false")}
            IN  /\ a.op = "removing" <=> (FailsSelector(d) \/ d.deletion_timestamp)
                /\ a.op = "removing" => (a.outcome = "Complete" <=> gone)

C9_Witness ==
    \E p \in Loops :
        /\ att[p].op = "removing"
        /\ FailsSelector(Get(att[p].dev))
        /\ ~Get(att[p].dev).deletion_timestamp
        /\ att[p].outcome = "Complete"
        /\ att[p].calls[1].result = Ok("true")
        /\ att[p].calls[2].result = Ok("true")

(* C10: missing(id) makes one call only, the delete of the Thing           *)
(* "<id>/sensor" in the configured application, and ends in Complete both  *)
(* when the Thing was there and when it was not.                           *)
C10_MissingDeletes ==
    \A p \in Loops :
        LET a == att[p]
        IN  a.op = "missing" =>
            /\ Len(a.calls) <= 1
            /\ a.step = "done" <=> Len(a.calls) = 1
            /\ \A i \in 1..Len(a.calls) :
                  /\ IsCall(a.calls[i], "twin", "delete_thing", a.id \o "/sensor")
                  /\ a.calls[i].result \in {Ok("true"), Ok("false")}
                        => a.outcome = "Complete"

C10_Witness ==
    \E p \in Loops :
        /\ att[p].op = "missing"
        /\ att[p].step = "done"
        /\ att[p].calls[1].result = Ok("false")
        /\ att[p].outcome = "Complete"

-----------------------------------------------------------------------------
(* C8: on a fresh matching device with the event path the only writer but   *)
(* for the external provisioning of the device-facet Thing: the attempt on *)
(* the device without the finalizer only writes the finalizer and ends in  *)
(* Retry; the attempt that then finds no sensor Thing creates it with      *)
(* every template synthetic present with a null value and, finding no      *)
(* device-facet Thing, ends in Retry; the attempt that finds the           *)
(* device-facet Thing writes it back with the grouping annotation and ends *)
(* in Complete.                                                            *)
C8_EndToEnd ==
    LET a == att["event"]
    IN  a.op # "none" =>
        LET d == Get(a.dev)
            n == Len(a.calls)
            sensor == d.name \o "/sensor"
            done == a.step = "done"
        IN  /\ a.op = "ensure"
            /\ "twin" \notin d.finalizers =>
                  /\ things[sensor] = None
                  /\ n = IF done THEN 1 ELSE 0
                  /\ done =>
                        /\ IsCall(a.calls[1], "registry", "update_device", d.name)
                        /\ a.calls[1].body = Some(WithFinalizer(d))
                        /\ a.calls[1].result = Ok("true")
                        /\ a.outcome = "Retry"
                        /\ registry[d.name] = Some(WithFinalizer(d))
            /\ ("twin" \in d.finalizers /\ n >= 1
                    /\ a.calls[1].result = Ok("none")) =>
                  /\ IsCall(a.calls[1], "twin", "get_thing", sensor)
                  /\ done => n >= 3
                  /\ n >= 2 =>
                        /\ IsCall(a.calls[2], "twin", "create_thing", sensor)
                        /\ a.calls[2].result = Ok("none")
                        /\ \A i \in 1..Len(template.synthetics) :
                              \E e \in Get(a.calls[2].body).synthetic_state :
                                 /\ e[1] = template.synthetics[i][1]
                                 /\ e[2].value = "null"
                  /\ n >= 3 => IsCall(a.calls[3], "twin", "get_thing", d.name)
                  /\ (n >= 3 /\ a.calls[3].result = Ok("none")) =>
                        done /\ n = 3 /\ a.outcome = "Retry"
            /\ \A i \in 1..n :
                  ( /\ done
                    /\ IsCall(a.calls[i], "twin", "get_thing", d.name)
                    /\ a.calls[i].result = Ok("some") ) =>
                  /\ n = i + 1
                  /\ IsCall(a.calls[n], "twin", "update_thing", d.name)
                  /\ a.calls[n].body =
                        Some([Get(a.calls[i].body) EXCEPT !.annotations =
                                 @ \cup {<<"io.drogue/group",
                                           "btmesh/eclipsecon2022">>}])
                  /\ Succeeded(a.calls[n])
                  /\ a.outcome = "Complete"
                  /\ things[d.name] = a.calls[n].body

(* the attempt that completes on the device-facet Thing as it was          *)
(* provisioned, the sensor Thing of an earlier attempt in place            *)
C8_Witness ==
    LET a == att["event"]
    IN  /\ a.op = "ensure"
        /\ a.step = "done"
        /\ a.outcome = "Complete"
        /\ Len(a.calls) = 4
        /\ a.calls[1].result = Ok("some")
        /\ \E e \in Get(a.calls[1].body).synthetic_state :
              e[1] = "temperature" /\ e[2].value = "null"
        /\ a.calls[3].body = Some(NewThing(application, "d1"))
        /\ "twin" \in Get(registry["d1"]).finalizers

-----------------------------------------------------------------------------
(* a sensor Thing that has the template's features, and no others *)
Conforms(T) ==
    /\ {e[1] : e \in T.synthetic_state} = Keys(template.synthetics)
    /\ \A e \in T.synthetic_state :
          e[2].type = [kind |-> "JavaScript",
                       src |-> template.synthetics[
                                  IndexOf(template.synthetics, e[1])][2].src]
    /\ Len(T.deleting) = Len(template.deleting)
    /\ \A c \in Range(template.deleting) :
          \E e \in Range(T.deleting) :
             e[1] = c[1] /\ e[2].code = [kind |-> "JavaScript", src |-> c[2].src]
    /\ Len(T.changed) = Len(template.changed)
    /\ \A c \in Range(template.changed) :
          \E e \in Range(T.changed) :
             e[1] = c[1] /\ e[2].code = [kind |-> "JavaScript", src |-> c[2].src]
    /\ Len(T.timers) = Len(template.timers)
    /\ \A c \in Range(template.timers) :
          \E e \in Range(T.timers) :
             /\ e[1] = c[1]
             /\ e[2].code = [kind |-> "JavaScript", src |-> c[2].code.src]
             /\ e[2].period = c[2].period

Grouped(T) == <<"io.drogue/group", "btmesh/eclipsecon2022">> \in T.annotations

(* an Ensuring attempt that found everything in place: the finalizer on   *)
(* its device, a conforming sensor Thing, the annotated device-facet Thing *)
FoundConsistent(a) ==
    /\ a.op = "ensure"
    /\ a.step = "done"
    /\ "twin" \in Get(a.dev).finalizers
    /\ \E i, j \in 1..Len(a.calls) :
          /\ IsCall(a.calls[i], "twin", "get_thing", a.id \o "/sensor")
          /\ a.calls[i].result = Ok("some")
          /\ Conforms(Get(a.calls[i].body))
          /\ IsCall(a.calls[j], "twin", "get_thing", a.id)
          /\ a.calls[j].result = Ok("some")
          /\ Grouped(Get(a.calls[j].body))

(* C7 as stated: Ensuring on a device that is consistent already makes no  *)
(* mutating call and ends in Complete.                                     *)
C7_NoMutatingCall ==
    \A p \in Loops :
        FoundConsistent(att[p]) =>
            /\ \A i \in 1..Len(att[p].calls) : ~Mutating(att[p].calls[i])
            /\ att[p].outcome = "Complete"

(* C7, amended: Ensuring on a device that carries the finalizer writes a   *)
(* conforming sensor Thing back as it fetched it, and an annotated         *)
(* device-facet Thing back as it fetched it; these two update_thing calls  *)
(* are its only mutating calls, and it ends in Complete when both are      *)
(* answered with success; so does every later run.                         *)
C7_RewritesUnchanged ==
    \A p \in Loops :
        LET a == att[p]
            n == Len(a.calls)
        IN  (a.op = "ensure" /\ "twin" \in Get(a.dev).finalizers) =>
            /\ \A i \in 1..n :
                  Mutating(a.calls[i]) =>
                     /\ a.calls[i].op \in {"update_thing", "create_thing"}
                     /\ i > 1
                     /\ a.calls[i - 1].op = "get_thing"
                     /\ a.calls[i - 1].name = a.calls[i].name
            /\ \A i \in 1..n :
                  ( /\ IsCall(a.calls[i], "twin", "get_thing", a.id \o "/sensor")
                    /\ a.calls[i].result = Ok("some")
                    /\ Conforms(Get(a.calls[i].body)) ) =>
                  /\ i = 1
                  /\ a.step = "done" => n >= 2
                  /\ n >= 2 =>
                        /\ IsCall(a.calls[2], "twin", "update_thing",
                                  a.id \o "/sensor")
                        /\ a.calls[2].body = a.calls[1].body
                        /\ Succeeded(a.calls[2]) =>
                              /\ a.step = "done" => n >= 3
                              /\ n >= 3 =>
                                    IsCall(a.calls[3], "twin", "get_thing", a.id)
            /\ \A i \in 1..n :
                  ( /\ IsCall(a.calls[i], "twin", "get_thing", a.id)
                    /\ a.calls[i].result = Ok("some")
                    /\ Grouped(Get(a.calls[i].body)) ) =>
                  /\ n <= i + 1
                  /\ a.step = "done" <=> n = i + 1
                  /\ n = i + 1 =>
                        /\ IsCall(a.calls[n], "twin", "update_thing", a.id)
                        /\ a.calls[n].body = a.calls[i].body
                        /\ Succeeded(a.calls[n]) => a.outcome = "Complete"
            /\ (FoundConsistent(a) /\ a.outcome = "Complete") =>
                  /\ n = 4
                  /\ Mutating(a.calls[2]) /\ Mutating(a.calls[4])

C7_Witness ==
    \E p \in Loops :
        /\ FoundConsistent(att[p])
        /\ att[p].outcome = "Complete"
        /\ Len(att[p].calls) = 4
        /\ things[att[p].id \o "/sensor"] = att[p].calls[1].body
        /\ things[att[p].id] = att[p].calls[3].body

-----------------------------------------------------------------------------
-----------------------------------------------------------------------------
Gone(d) == ~IsSome(registry[d]) \/ Get(registry[d]).deletion_timestamp

(* C3: once the device is soft-deleted or hard-deleted (and it is never    *)
(* created again), its sensor Thing is eventually absent from the twin     *)
(* store and stays absent, however the two loops interleave.               *)
C3_DeletionReflected ==
    [](Gone("d1") => <>[](things["d1/sensor"] = None))

-----------------------------------------------------------------------------
(* what the scanner is to bring about for a device the registry lists *)
Settled(d) ==
    LET device == Get(registry[d])
        sensor == things[d \o "/sensor"]
    IN  IF ~FailsSelector(device) /\ ~device.deletion_timestamp
        THEN /\ "twin" \in device.finalizers
             /\ IsSome(sensor)
             /\ Conforms(Get(sensor))
        ELSE /\ "twin" \notin device.finalizers
             /\ sensor = None

Converged == \A d \in Devices : IsSome(registry[d]) => Settled(d)

(* C4: with no message ever delivered, the scanner alone brings every      *)
(* listed device to its settled state, for good, once the registry and the *)
(* twin store are left alone.                                              *)
C4_ScannerConverges == <>[]Converged

-----------------------------------------------------------------------------
(* configure_sensor on its own: a template and a sensor Thing out of the   *)
(* sets below, synced MaxSync times, the clock going on between the syncs  *)

MaxSync == 2

Alias(src) == [kind |-> "alias", src |-> src]

FeatureKeys == {"a", "b", "c"}
KeySeqs == UNION {Orders(S) : S \in SUBSET FeatureKeys}

SyntheticTemplates ==
    {<<>>,
     << <<"s1", JsCode("t1")>> >>,
     << <<"s2", Alias("x2")>>, <<"s1", JsCode("t1")>> >>}

SyntheticStates ==
    {{},
     {<<"s1", [type |-> [kind |-> "Alias", src |-> "x0"], value |-> "21",
               last_update |-> 0]>>,
      <<"s3", [type |-> [kind |-> "JavaScript", src |-> "t3"], value |-> "7",
               last_update |-> 0]>>},
     {<<"s2", [type |-> [kind |-> "Alias", src |-> "x2"], value |-> "null",
               last_update |-> 0]>>}}

(* a template map and a Thing map over the keys of a sequence *)
CodeTemplate(ks) == [i \in 1..Len(ks) |-> <<ks[i], JsCode(ks[i])>>]
TimerTemplate(ks) ==
    [i \in 1..Len(ks) |-> <<ks[i], [code |-> JsCode(ks[i]), period |-> 5]>>]
DeletingState(ks) ==
    [i \in 1..Len(ks) |-> <<ks[i], [code |-> CodeFrom(JsCode("old"))]>>]
ChangedState(ks) ==
    [i \in 1..Len(ks) |->
        <<ks[i], [code |-> CodeFrom(JsCode("old")), last_log |-> <<ks[i]>>]>>]
TimersState(ks) ==
    [i \in 1..Len(ks) |->
        <<ks[i], [code |-> CodeFrom(JsCode("old")), period |-> 9,
                  stopped |-> TRUE, last_started |-> Some(1),
                  last_run |-> Some(2), last_log |-> <<ks[i]>>,
                  initial_delay |-> Some(3)]>>]

FewTemplateSeqs == {<<>>, <<"b", "d">>}
FewStateSeqs == {<<"a">>, <<"a", "b", "c">>}

SyncSensor == "d1/sensor"

InitSync ==
    /\ selector = {}
    /\ registry = [d \in Devices |-> None]
    /\ stream = <<>>
    /\ scanpc = "tick"
    /\ devices = <<>>
    /\ idx = 0
    /\ evpc = "recv"
    /\ evId = ""
    /\ att = [p \in Loops |-> NoAttempt]
    /\ panicked = FALSE
    /\ clock = 1
    /\ ext = 0
    /\ \E syn \in SyntheticTemplates, del \in KeySeqs,
          chg \in FewTemplateSeqs, tim \in FewTemplateSeqs :
          template = [synthetics |-> syn, deleting |-> CodeTemplate(del),
                      changed |-> CodeTemplate(chg),
                      timers |-> TimerTemplate(tim)]
    /\ \E syn \in SyntheticStates, del \in KeySeqs,
          chg \in FewStateSeqs, tim \in FewStateSeqs :
          things = [n \in ThingNames |->
                       IF n = SyncSensor
                       THEN Some([NewThing(application, n) EXCEPT
                                     !.synthetic_state = syn,
                                     !.deleting = DeletingState(del),
                                     !.changed = ChangedState(chg),
                                     !.timers = TimersState(tim)])
                       ELSE None]

(* self.configure_sensor(&mut thing) *)
Differencer ==
    /\ clock <= MaxSync
    /\ \E thing \in configure_sensor(template, Get(things[SyncSensor]), clock) :
          things' = [things EXCEPT ![SyncSensor] = Some(thing)]
    /\ clock' = clock + 1
    /\ UNCHANGED <<selector, template, registry, stream, scanpc, devices, idx,
                   evpc, evId, att, panicked, ext>>

SpecSync == InitSync /\ [][Differencer]_vars

-----------------------------------------------------------------------------
(* the Thing on the bench, and what the template says of an entry *)
Synced == Get(things[SyncSensor])
TemplateOf(m, k) == m[CHOOSE i \in 1..Len(m) : m[i][1] = k][2]
TemplateKeys(m) == {m[i][1] : i \in 1..Len(m)}
StateKeys(m) == {m[i][1] : i \in 1..Len(m)}
StateOf(m, k) == m[CHOOSE i \in 1..Len(m) : m[i][1] = k][2]
TypeOf(syn) ==
    [kind |-> IF syn.kind = "javaScript" THEN "JavaScript" ELSE "Alias",
     src |-> syn.src]
ScriptOf(code) == [kind |-> "JavaScript", src |-> code.src]

(* C11: after configure_sensor has run, each of the four maps of the Thing *)
(* has the keys of the template's map, no more and no fewer, and under     *)
(* each key the synthetic's type, the handler's code, the timer's code and *)
(* period are the template's.                                              *)
C11_TemplateConformance ==
    clock > 1 =>
        /\ {e[1] : e \in Synced.synthetic_state} = TemplateKeys(template.synthetics)
        /\ \A e \in Synced.synthetic_state :
              e[2].type = TypeOf(TemplateOf(template.synthetics, e[1]))
        /\ StateKeys(Synced.deleting) = TemplateKeys(template.deleting)
        /\ Len(Synced.deleting) = Len(template.deleting)
        /\ \A k \in StateKeys(Synced.deleting) :
              StateOf(Synced.deleting, k).code =
                 ScriptOf(TemplateOf(template.deleting, k))
        /\ StateKeys(Synced.changed) = TemplateKeys(template.changed)
        /\ Len(Synced.changed) = Len(template.changed)
        /\ \A k \in StateKeys(Synced.changed) :
              StateOf(Synced.changed, k).code =
                 ScriptOf(TemplateOf(template.changed, k))
        /\ StateKeys(Synced.timers) = TemplateKeys(template.timers)
        /\ Len(Synced.timers) = Len(template.timers)
        /\ \A k \in StateKeys(Synced.timers) :
              /\ StateOf(Synced.timers, k).code =
                    ScriptOf(TemplateOf(template.timers, k).code)
              /\ StateOf(Synced.timers, k).period =
                    TemplateOf(template.timers, k).period

(* a sync that changed a type, created an entry and removed one *)
C11_Witness ==
    /\ clock = 2
    /\ Len(template.synthetics) = 2
    /\ \E e \in Synced.synthetic_state :
          e[1] = "s1" /\ e[2].value = "21" /\ e[2].type.kind = "JavaScript"
    /\ \E e \in Synced.synthetic_state : e[1] = "s2" /\ e[2].last_update = 1
    /\ Len(Synced.deleting) = 3
    /\ Len(Synced.timers) = 2

-----------------------------------------------------------------------------
(* C12: configure_sensor run again on the Thing it left, with the same     *)
(* template, leaves that Thing as it is: every map, the order of its       *)
(* entries and every runtime field, though the clock has gone on.          *)
C12_SyncStability ==
    [][ clock > 1 => things' = things ]_vars

(* two syncs done; the entry the first created still bears its time *)
C12_Witness ==
    /\ clock = 3
    /\ \E e \in Synced.synthetic_state : e[1] = "s2" /\ e[2].last_update = 1
    /\ \E e \in Synced.synthetic_state : e[1] = "s1" /\ e[2].value = "21"
    /\ Len(Synced.deleting) = 3
    /\ Len(Synced.changed) = 2
    /\ Len(Synced.timers) = 2

-----------------------------------------------------------------------------
(* the runtime fields of an entry, family by family *)
SyntheticRuntime(e) == <<e.value, e.last_update>>
ChangedRuntime(e) == e.last_log
TimerRuntime(e) ==
    <<e.stopped, e.last_started, e.last_run, e.last_log, e.initial_delay>>

(* C13: a sync creates an entry for each template key the Thing lacks,     *)
(* with the runtime fields at their defaults (null value, not stopped, no  *)
(* last start, run or initial delay, empty log); removes the keys the      *)
(* template lacks and no other; leaves the runtime fields of the entries   *)
(* it keeps as they were; and touches nothing of the Thing besides, each   *)
(* map depending on its own template map only.                             *)
C13_AddRemoveSymmetry ==
    [][ things' # things =>
        LET old == Get(things[SyncSensor])
            new == Get(things'[SyncSensor])
            oldSyn == {e[1] : e \in old.synthetic_state}
        IN  /\ [new EXCEPT !.synthetic_state = {}, !.deleting = <<>>,
                           !.changed = <<>>, !.timers = <<>>]
                 = [old EXCEPT !.synthetic_state = {}, !.deleting = <<>>,
                               !.changed = <<>>, !.timers = <<>>]
            /\ {e[1] : e \in new.synthetic_state} = TemplateKeys(template.synthetics)
            /\ \A e \in new.synthetic_state :
                  IF e[1] \in oldSyn
                  THEN \E o \in old.synthetic_state :
                          o[1] = e[1] /\ SyntheticRuntime(o[2]) = SyntheticRuntime(e[2])
                  ELSE SyntheticRuntime(e[2]) = <<"null", clock>>
            /\ StateKeys(new.deleting) = TemplateKeys(template.deleting)
            /\ Len(new.deleting) = Len(template.deleting)
            /\ StateKeys(new.changed) = TemplateKeys(template.changed)
            /\ Len(new.changed) = Len(template.changed)
            /\ \A k \in StateKeys(new.changed) :
                  ChangedRuntime(StateOf(new.changed, k)) =
                     IF k \in StateKeys(old.changed)
                     THEN ChangedRuntime(StateOf(old.changed, k))
                     ELSE <<>>
            /\ StateKeys(new.timers) = TemplateKeys(template.timers)
            /\ Len(new.timers) = Len(template.timers)
            /\ \A k \in StateKeys(new.timers) :
                  TimerRuntime(StateOf(new.timers, k)) =
                     IF k \in StateKeys(old.timers)
                     THEN TimerRuntime(StateOf(old.timers, k))
                     ELSE <<FALSE, <<>>, <<>>, <<>>, <<>> >>
      ]_vars

(* a sync that kept a running entry, created one and removed two *)
C13_Witness ==
    /\ clock = 2
    /\ StateKeys(Synced.timers) = {"b", "d"}
    /\ TimerRuntime(StateOf(Synced.timers, "b")) =
          <<TRUE, <<1>>, <<2>>, <<"b">>, <<3>> >>
    /\ TimerRuntime(StateOf(Synced.timers, "d")) =
          <<FALSE, <<>>, <<>>, <<>>, <<>> >>
    /\ StateKeys(Synced.changed) = {"b", "d"}
    /\ ChangedRuntime(StateOf(Synced.changed, "b")) = <<"b">>
    /\ ChangedRuntime(StateOf(Synced.changed, "d")) = <<>>
    /\ \E e \in Synced.synthetic_state :
          e[1] = "s1" /\ SyntheticRuntime(e[2]) = <<"21", 0>>

-----------------------------------------------------------------------------
(* the entries of an ordered map keep their order from old to new, and the *)
(* entries new to it stand behind the ones it kept                         *)
OrderKept(old, new) ==
    LET kept == Keys(old) \cap Keys(new)
    IN  /\ \A k1, k2 \in kept :
              IndexOf(old, k1) < IndexOf(old, k2)
                 => IndexOf(new, k1) < IndexOf(new, k2)
        /\ \A k \in kept, c \in Keys(new) \ Keys(old) :
              IndexOf(new, k) < IndexOf(new, c)

(* C14: a sync leaves the surviving entries of the on-deleting handlers,   *)
(* the on-changed handlers and the timers in the relative order they had,  *)
(* and puts the entries it creates behind all of them, whatever keys it    *)
(* adds and removes in the pass.                                           *)
C14_OrderPreserved ==
    [][ LET old == Get(things[SyncSensor])
            new == Get(things'[SyncSensor])
        IN  /\ OrderKept(old.deleting, new.deleting)
            /\ OrderKept(old.changed, new.changed)
            /\ OrderKept(old.timers, new.timers)
      ]_vars

-----------------------------------------------------------------------------
(* loop p's attempt is over and its last call was a write the store turned *)
(* down, while the attempt of the other loop q wrote the same object       *)
LostRace(p, q) ==
    /\ p # q
    /\ att[p].step = "done"
    /\ att[p].calls # <<>>
    /\ Mutating(Last(att[p].calls))
    /\ ~Succeeded(Last(att[p].calls))
    /\ \E i \in 1..Len(att[q].calls) :
          /\ Mutating(att[q].calls[i])
          /\ Succeeded(att[q].calls[i])
          /\ att[q].calls[i].api = Last(att[p].calls).api
          /\ att[q].calls[i].name = Last(att[p].calls).name

(* C15: the scanner and the event path may reconcile the same device at    *)
(* the same time; with stores that answer success, NotFound or Conflict    *)
(* only, an attempt whose write lost against the other loop's write of the *)
(* same object ends in Retry, and neither loop stops on a fatal error.     *)
C15_RaceSafety ==
    /\ ~panicked
    /\ \A p, q \in Loops : LostRace(p, q) => att[p].outcome = "Retry"

-----------------------------------------------------------------------------
(* C16: whenever the sensor Thing of a device is in the twin store and the *)
(* device is in the registry, the registry's record of the device carries  *)
(* the finalizer, however the scanner and the event path interleave.       *)
C16_FinalizerInvariant ==
    \A d \in Devices :
        (IsSome(things[sensor_thing(d)]) /\ IsSome(registry[d]))
            => "twin" \in Get(registry[d]).finalizers

-----------------------------------------------------------------------------
(* Both loops against stores that may fail: any call may be answered with  *)
(* a server error, and a create with not-found as well (no such            *)
(* application), in either encoding.                                       *)

CreateFaults == Faults \cup {"NOT_FOUND"}

ReconcilerFault ==
    \E p \in Loops :
        \/ ensure_add_finalizer(p, Faults)
        \/ ensure_sensor_get(p, Faults)
        \/ ensure_sensor_update(p, Faults)
        \/ ensure_sensor_create(p, CreateFaults)
        \/ ensure_device_get(p, Faults)
        \/ ensure_device_update(p, Faults)
        \/ missing_delete(p, Faults)
        \/ removing_update(p, Faults)

NextFault ==
    \/ ReconcilerFault
    \/ Scanner(Faults)
    \/ Consumer(Faults)
    \/ WorldLive
    \/ Bus(Changes({"d1"}))

SpecFault == InitLive /\ [][NextFault]_vars

-----------------------------------------------------------------------------
(* the delete of the sensor Thing was answered with success or not-found *)
Deleted(c) ==
    \/ c.result \in {Ok("true"), Ok("false")}
    \/ IsErr(c.result, "Response", {"NOT_FOUND"})

(* C17: a Removing attempt writes the device without the finalizer only as *)
(* its second call, after the delete of the sensor Thing was answered with *)
(* success or not-found; when the delete is answered with anything else,   *)
(* the attempt (Removing or Missing) is over with an error after that one  *)
(* call, no registry write made.                                           *)
C17_RemovingOrder ==
    \A p \in Loops :
        LET a == att[p]
        IN  a.op \in {"removing", "missing"} =>
            /\ \A i \in 1..Len(a.calls) :
                  a.calls[i].api = "registry" =>
                     /\ a.op = "removing"
                     /\ i = 2
                     /\ IsCall(a.calls[i], "registry", "update_device", a.id)
                     /\ a.calls[i].body = Some(WithoutFinalizer(Get(a.dev)))
            /\ a.calls # <<>> =>
                  /\ IsCall(a.calls[1], "twin", "delete_thing", sensor_thing(a.id))
                  /\ ~Deleted(a.calls[1]) =>
                        /\ Len(a.calls) = 1
                        /\ a.step = "done"
                        /\ a.outcome = "Err"

(* a Removing attempt stopped by a failed delete, the finalizer in place *)
C17_Witness ==
    \E p \in Loops :
        /\ att[p].op = "removing"
        /\ att[p].step = "done"
        /\ Len(att[p].calls) = 1
        /\ att[p].calls[1].result.code = "INTERNAL_SERVER_ERROR"
        /\ att[p].outcome = "Err"
        /\ IsSome(registry[att[p].id])
        /\ "twin" \in Get(registry[att[p].id]).finalizers

-----------------------------------------------------------------------------
(* the sensor step of an Ensuring attempt succeeded: the sensor Thing was  *)
(* fetched and then created or updated with success                        *)
SensorStepOk(a) ==
    /\ Len(a.calls) >= 2
    /\ IsCall(a.calls[1], "twin", "get_thing", sensor_thing(a.id))
    /\ Succeeded(a.calls[1])
    /\ \/ IsCall(a.calls[2], "twin", "update_thing", sensor_thing(a.id))
       \/ IsCall(a.calls[2], "twin", "create_thing", sensor_thing(a.id))
    /\ a.calls[1].result.code = "some" <=> a.calls[2].op = "update_thing"
    /\ Succeeded(a.calls[2])

(* the device step succeeded: the device-facet Thing was found and updated *)
DeviceStepOk(a) ==
    /\ Len(a.calls) = 4
    /\ IsCall(a.calls[3], "twin", "get_thing", a.id)
    /\ a.calls[3].result = Ok("some")
    /\ IsCall(a.calls[4], "twin", "update_thing", a.id)
    /\ Succeeded(a.calls[4])

(* C18: an Ensuring attempt ends in Complete only when, in that attempt,   *)
(* the create or update of the sensor Thing succeeded and the device-facet *)
(* Thing was found and its update succeeded; an attempt whose sensor step  *)
(* did not succeed makes no call, get or update, on the device-facet Thing.*)
C18_EnsureComplete ==
    \A p \in Loops :
        LET a == att[p]
        IN  a.op = "ensure" =>
            /\ a.outcome = "Complete" => (SensorStepOk(a) /\ DeviceStepOk(a))
            /\ (\E i \in 1..Len(a.calls) :
                    a.calls[i].api = "twin" /\ a.calls[i].name = a.id)
                  => SensorStepOk(a)
            /\ (a.step = "done" /\ ~SensorStepOk(a)) => Len(a.calls) <= 2

(* one attempt Complete after both steps, the other stopped by a sensor    *)
(* step that ended in Retry                                                *)
C18_Witness ==
    \E p, q \in Loops :
        /\ att[p].op = "ensure"
        /\ att[p].outcome = "Complete"
        /\ DeviceStepOk(att[p])
        /\ att[q].op = "ensure"
        /\ att[q].step = "done"
        /\ att[q].outcome = "Retry"
        /\ Len(att[q].calls) = 2
        /\ att[q].calls[2].api = "twin"
        /\ ~Succeeded(att[q].calls[2])

-----------------------------------------------------------------------------
(* a write of Ensuring to the twin API: the create or update of the sensor *)
(* Thing, the update of the device-facet Thing                             *)
EnsureWrite(c) ==
    c.api = "twin" /\ c.op \in {"create_thing", "update_thing"}

(* C19: an Ensuring attempt whose write to the twin API was answered with  *)
(* not-found ends in Retry, whether the answer came as a bare status or as *)
(* a service error with a body; one whose write was answered with anything *)
(* but success, not-found and conflict ends in an error.                   *)
C19_NotFoundYieldsRetry ==
    \A p \in Loops :
        LET a == att[p]
        IN  ( /\ a.op = "ensure"
              /\ a.step = "done"
              /\ a.calls # <<>>
              /\ EnsureWrite(Last(a.calls))
              /\ ~Succeeded(Last(a.calls)) )
            => LET r == Last(a.calls).result
               IN  /\ r.code = "NOT_FOUND" => a.outcome = "Retry"
                   /\ r.code \notin {"NOT_FOUND", "CONFLICT"} => a.outcome = "Err"

-----------------------------------------------------------------------------
(* where loop p stands *)
Position(p) == IF p = "scan" THEN <<scanpc, idx>> ELSE <<evpc, evId>>
Failed(p) == att[p].step = "done" /\ att[p].outcome = "Err"

(* C20: once an attempt has returned an error, its loop makes no further   *)
(* attempt and takes no further device or message: the one thing that      *)
(* follows is the error reaching the caller, which stops on it; and a      *)
(* get_device of the event path leads to an attempt or to that stop, never *)
(* back to the next message.                                               *)
C20_NoSwallow ==
    [][ /\ \A p \in Loops :
              Failed(p) =>
                 /\ att'[p] = att[p]
                 /\ Position(p)' = Position(p)
                 /\ panicked' # panicked => panicked'
        /\ evpc = "fetch" =>
              \/ evpc' = "attempt" /\ att'["event"].op # "none" /\ ~panicked'
              \/ evpc' = "fetch" /\ att'["event"] = att["event"]
        /\ panicked' =>
              \/ panicked
              \/ \E p \in Loops : Failed(p)
              \/ evpc = "fetch"
      ]_vars

(* the event path stopped on the error of its attempt *)
C20_Witness ==
    /\ panicked
    /\ evpc = "attempt"
    /\ Failed("event")
    /\ Last(att["event"].calls).result.code = "INTERNAL_SERVER_ERROR"
    /\ ~Failed("scan")

-----------------------------------------------------------------------------
(* Both loops, and a bus that delivers whatever there may be on the topic: *)
(* payloads that do not decode, events of another type, registry events    *)
(* without a device, changes of d1. The deliveries are counted as the      *)
(* world's actions are.                                                    *)

MaxBacklog == 2
MaxDeliver == 3

Deliver(M) ==
    /\ ~panicked
    /\ Len(stream) < MaxBacklog
    /\ ext < MaxDeliver
    /\ \E m \in M : stream' = Append(stream, m)
    /\ ext' = ext + 1
    /\ UNCHANGED <<storeVars, devices, att, ctlVars, cfgVars>>

NextBus ==
    \/ Reconciler(NoFaults)
    \/ Scanner(NoFaults)
    \/ Consumer(NoFaults)
    \/ WorldLive
    \/ Deliver(Messages({"d1"}))

SpecBus == InitLive /\ [][NextBus]_vars /\ Fairness

-----------------------------------------------------------------------------
(* the consumer takes the message at the head of the stream *)
Taken == stream # <<>> /\ Len(stream') < Len(stream)
Ignorable(m) == m.decodes /\ (m.ty # REGISTRY_TYPE \/ ~IsSome(m.device))

(* C21: when the consumer takes an event that decodes but is of another    *)
(* type, or is a registry event without the device extension, no attempt   *)
(* and no get_device is started, the registry and the twin store are left  *)
(* as they are, and the consumer waits for the next message.               *)
C21_EventFiltering ==
    [][ (Taken /\ Ignorable(Head(stream))) =>
           /\ stream' = Tail(stream)
           /\ registry' = registry
           /\ things' = things
           /\ att' = att
           /\ evId' = evId
           /\ evpc = "recv" /\ evpc' = "recv"
           /\ ~panicked'
      ]_vars

(* one message was delivered and taken and the consumer waits for the next *)
(* though no dispatch can have ended: the device is there, matching and    *)
(* not deleted, and its device-facet Thing is not                          *)
C21_Witness ==
    /\ ext = 1
    /\ stream = <<>>
    /\ evpc = "recv"
    /\ att["event"] = NoAttempt
    /\ IsSome(registry["d1"])
    /\ ~Get(registry["d1"]).deletion_timestamp
    /\ things["d1"] = None

-----------------------------------------------------------------------------
(* C22: once a payload has failed to decode the consumer is over: it takes *)
(* no message that arrives later and starts no dispatch; the scanner goes  *)
(* on, pass after pass.                                                    *)
C22_DecodeFailureStops ==
    /\ [][ evpc = "stopped" =>
             /\ evpc' = "stopped"
             /\ ~Taken
             /\ att'["event"] = att["event"] ]_vars
    /\ [](evpc = "stopped" =>
            ([]<>(scanpc = "tick") /\ []<>(scanpc = "provision")))

-----------------------------------------------------------------------------
(* C23: when an attempt of the scanner has returned an error, the scanner  *)
(* gives up the pass, the devices left in it not attempted, and is back    *)
(* waiting for the tick, from which it lists the devices anew; it is not   *)
(* stopped by the error.                                                   *)
C23_ScanAbortsPassOnly ==
    /\ [][ (Failed("scan") /\ <<scanpc, idx, att["scan"], panicked>>' #
                                 <<scanpc, idx, att["scan"], panicked>>) =>
              /\ scanpc' = "tick"
              /\ ~panicked' ]_vars
    /\ (Failed("scan") ~> (scanpc = "provision" /\ idx = 0 /\ ~panicked))

-----------------------------------------------------------------------------
(* a dispatch of the event path is going on *)
Dispatching == evpc \in {"fetch", "attempt"}

(* C24: the consumer takes the messages one by one in the order of their   *)
(* arrival, and takes one only when no dispatch is going on: the dispatch  *)
(* of the message before is over, by a skip, by Complete or by the stop on *)
(* an error, so that there is one event-path attempt at most at any time.  *)
C24_OneAtATime ==
    [][ /\ Taken =>
              /\ stream' = Tail(stream)
              /\ ~Dispatching
              /\ att["event"] = NoAttempt
              /\ ~panicked
              /\ Dispatching' =>
                    /\ Head(stream) \in Changes(Devices)
                    /\ evId' = Get(Head(stream).device)
        /\ ~Taken => \E k \in 0..1 : SubSeq(stream', 1, Len(stream') - k) = stream
        /\ Dispatching =>
              /\ evId' = evId
              /\ ~Dispatching' =>
                    /\ evpc' = "recv"
                    /\ att["event"].outcome = "Complete"
      ]_vars

(* two messages wait, in the order they came, while an attempt is going on *)
C24_Witness ==
    /\ evpc = "attempt"
    /\ att["event"].op = "ensure"
    /\ att["event"].step \notin {"done", "add_finalizer"}
    /\ Len(stream) = 2
    /\ ~stream[1].decodes
    /\ stream[2] \in Changes(Devices)

-----------------------------------------------------------------------------
(* the event path alone, taking every step it can take *)
FairnessE2E ==
    /\ WF_vars(ensure("event", NoFaults))
    /\ WF_vars(Consumer(NoFaults))

SpecTerm == InitE2E /\ [][NextE2E]_vars /\ FairnessE2E

(* C25: the dispatch of the event path is left only after an attempt that  *)
(* ended in Complete (or stops on an error), however many attempts that    *)
(* takes; with the device matching and not deleted, the device-facet Thing *)
(* there and no store turning a call down, it comes to that end; and while *)
(* the device-facet Thing is never provisioned, every attempt ending in    *)
(* Retry, it has no end.                                                   *)
C25_DispatchTermination ==
    /\ [][ (Dispatching /\ ~Dispatching') =>
              /\ att["event"].outcome = "Complete"
              /\ evpc' = "recv" ]_vars
    /\ ((Dispatching /\ IsSome(things["d1"])) ~> (evpc = "recv"))
    /\ []((Dispatching /\ [](things["d1"] = None)) => []Dispatching)

(* an attempt on the device with its finalizer and its sensor Thing ended  *)
(* in Retry, the device-facet Thing not being there                        *)
C25_Witness ==
    /\ evpc = "attempt"
    /\ att["event"].op = "ensure"
    /\ att["event"].step = "done"
    /\ att["event"].outcome = "Retry"
    /\ Len(att["event"].calls) = 3
    /\ IsCall(att["event"].calls[2], "twin", "update_thing", "d1/sensor")
    /\ att["event"].calls[3].result = Ok("none")
    /\ things["d1"] = None

-----------------------------------------------------------------------------
(* a device record but for the finalizer of the controller *)
ButFinalizer(d) == [Data(d) EXCEPT !.finalizers = @ \ {"twin"}]

(* a loop has made a call in this step *)
Called == \E p \in Loops : Len(att'[p].calls) > Len(att[p].calls)

(* C26: every call the controller makes on the registry is an update of    *)
(* the device it was given, with that device's name, labels, deletion mark *)
(* and other finalizers, the finalizer twin added (Ensuring) or taken away *)
(* (Removing); and a step in which the controller makes a call neither     *)
(* creates nor deletes a device, and changes nothing of a stored device    *)
(* but that finalizer.                                                     *)
C26_FinalizerOnly ==
    [][ /\ \A p \in Loops : \A i \in 1..Len(att'[p].calls) :
              LET a == att'[p]
                  c == a.calls[i]
              IN  c.api = "registry" =>
                     /\ a.op \in {"ensure", "removing"}
                     /\ IsCall(c, "registry", "update_device", Get(a.dev).name)
                     /\ c.body = Some(IF a.op = "ensure"
                                      THEN WithFinalizer(Get(a.dev))
                                      ELSE WithoutFinalizer(Get(a.dev)))
        /\ Called =>
              \A d \in Devices :
                 /\ IsSome(registry'[d]) <=> IsSome(registry[d])
                 /\ registry'[d] # registry[d] =>
                       /\ ButFinalizer(Get(registry'[d])) = ButFinalizer(Get(registry[d]))
                       /\ \E p \in Loops :
                             /\ att'[p].calls # <<>>
                             /\ Last(att'[p].calls).body = registry'[d]
      ]_vars

(* a Removing attempt took the finalizer from a device that another        *)
(* finalizer holds, and the registry has the device with that other one    *)
C26_Witness ==
    \E p \in Loops :
        /\ att[p].op = "removing"
        /\ att[p].outcome = "Complete"
        /\ Get(att[p].dev).finalizers = {"twin", "other"}
        /\ Last(att[p].calls).result = Ok("true")
        /\ IsSome(registry[att[p].id])
        /\ Get(registry[att[p].id]).finalizers = {"other"}
        /\ Get(registry[att[p].id]).labels = Get(att[p].dev).labels

-----------------------------------------------------------------------------
(* the Thing with the grouping annotation put on it *)
Grouping(t) ==
    [Data(t) EXCEPT !.annotations =
        {e \in @ : e[1] # "io.drogue/group"}
           \cup {<<"io.drogue/group", "btmesh/eclipsecon2022">>}]

(* C27: the controller neither creates nor deletes the Thing that goes by  *)
(* the name of the device, in Ensuring, Removing or Missing: its calls on  *)
(* it are a get and, after a get that found it, the update of the Thing    *)
(* fetched with the grouping annotation put on it and nothing else of it   *)
(* changed; after a get that found none the Ensuring attempt is over, in   *)
(* Retry, no write made.                                                   *)
C27_DeviceFacet ==
    [][ /\ \A p \in Loops : \A i \in 1..Len(att'[p].calls) :
              LET a == att'[p]
                  c == a.calls[i]
              IN  (c.api = "twin" /\ c.name \in Devices) =>
                     /\ a.op = "ensure"
                     /\ c.name = a.id
                     /\ c.op \in {"get_thing", "update_thing"}
                     /\ c.op = "update_thing" =>
                           /\ i > 1
                           /\ IsCall(a.calls[i - 1], "twin", "get_thing", a.id)
                           /\ a.calls[i - 1].result = Ok("some")
                           /\ c.body = Some(Grouping(Get(a.calls[i - 1].body)))
                     /\ (c.op = "get_thing" /\ c.result = Ok("none")) =>
                           /\ i = Len(a.calls)
                           /\ a.step = "done"
                           /\ a.outcome = "Retry"
        /\ Called =>
              \A d \in Devices :
                 /\ IsSome(things'[d]) <=> IsSome(things[d])
                 /\ things'[d] # things[d] =>
                       things'[d] = Some(Grouping(Get(things[d])))
      ]_vars

(* an attempt found the device-facet Thing without the annotation and has  *)
(* updated it; another found none and ended in Retry                       *)
C27_Witness ==
    \E p, q \in Loops :
        /\ att[p].op = "ensure"
        /\ Len(att[p].calls) = 4
        /\ att[p].calls[3].body = Some(NewThing(application, att[p].id))
        /\ Succeeded(att[p].calls[4])
        /\ things[att[p].id] = Some(Grouping(NewThing(application, att[p].id)))
        /\ att[q].op = "ensure"
        /\ att[q].outcome = "Retry"
        /\ Len(att[q].calls) = 3
        /\ att[q].calls[3].result = Ok("none")

====
